---- MODULE Spec2Model ----
(***************************************************************************)
(* kingdom_sim: procedural world generation (src/src/systems/world_gen.rs, *)
(* src/src/systems/world.rs, src/src/main.rs).                             *)
(*                                                                         *)
(* Numbers.  f64 values are fixed-point integers in thousandths (Unit),    *)
(* with one extra value NaN that every arithmetic operation propagates and *)
(* every comparison answers FALSE for, as IEEE-754 does.  f32 values are   *)
(* the same, kept on a coarser grid (F32Step thousandths), so the cast     *)
(* `as f32` loses precision.  The scale fields of WorldData are in         *)
(* millionths, since the program's defaults (0.005, 0.0005) need them.     *)
(***************************************************************************)
EXTENDS Integers, Sequences, FiniteSets, TLC

\* ------------------------------------------------------------------ bounds
\* The world is WORLD_SIZE x WORLD_SIZE cells (8192 in systems/world.rs, 4096
\* in main.rs), cut in chunks of CHUNK_SIZE x CHUNK_SIZE cells (256).
WORLD_SIZE == 4
CHUNK_SIZE == 2
\* Width in bits of the machine integer standing for i32.
IntBits == 8

\* ------------------------------------------------------ program constants
HALO == 1
MAX_ELEVATION == 100000
\* `let max_elevation = 100.0` of generate_logical_world.
LocalMaxElevation == 100000
SEA_LEVEL == 480
CHUNKS_SIZE == WORLD_SIZE \div CHUNK_SIZE

\* ------------------------------------------------------------ fixed point
Unit == 10 * 10 * 10
ScaleUnit == Unit * Unit
F32Step == 2 * 5
NaN == 0 - 999999999
PI == 3142
TwoPI == 2 * PI

IsNaN(v) == v = NaN

TruncDiv(a, b) ==
    IF b < 0 THEN (IF a >= 0 THEN 0 - (a \div (0 - b)) ELSE (0 - a) \div (0 - b))
    ELSE IF a >= 0 THEN a \div b ELSE 0 - ((0 - a) \div b)

FAdd(a, b) == IF IsNaN(a) \/ IsNaN(b) THEN NaN ELSE a + b
FSub(a, b) == IF IsNaN(a) \/ IsNaN(b) THEN NaN ELSE a - b
FNeg(a) == IF IsNaN(a) THEN NaN ELSE 0 - a
FAbs(a) == IF IsNaN(a) THEN NaN ELSE IF a < 0 THEN 0 - a ELSE a
FMul(a, b) == IF IsNaN(a) \/ IsNaN(b) THEN NaN ELSE TruncDiv(a * b, Unit)
\* The only divisor that can be zero is max_possible_amplitude, and the
\* dividend elevation_terrain is 0.0 whenever it is: 0.0 / 0.0 is NaN.
FDiv(a, b) ==
    IF IsNaN(a) \/ IsNaN(b) \/ b = 0 THEN NaN ELSE TruncDiv(a * Unit, b)
\* v * s for a scale s in millionths.
FScale(v, s) == IF IsNaN(v) \/ IsNaN(s) THEN NaN ELSE TruncDiv(v * s, ScaleUnit)
FLt(a, b) == ~IsNaN(a) /\ ~IsNaN(b) /\ a < b
FLe(a, b) == ~IsNaN(a) /\ ~IsNaN(b) /\ a <= b
FGt(a, b) == ~IsNaN(a) /\ ~IsNaN(b) /\ a > b
FGe(a, b) == ~IsNaN(a) /\ ~IsNaN(b) /\ a >= b
\* f64::clamp / f32::clamp: NaN stays NaN.
FClamp01(v) ==
    IF IsNaN(v) THEN NaN ELSE IF v < 0 THEN 0 ELSE IF v > Unit THEN Unit ELSE v

\* `as f32`: round to the nearest value of the coarser f32 grid.
ToF32(v) ==
    IF IsNaN(v) THEN NaN
    ELSE IF v >= 0 THEN ((v + F32Step \div 2) \div F32Step) * F32Step
    ELSE 0 - ((((0 - v) + F32Step \div 2) \div F32Step) * F32Step)

\* f64::sin and f64::cos on an angle in thousandths of a radian: reduction
\* to [0, 2 pi), then Bhaskara's rational approximation on [0, pi].
SinHalf(x) ==
    LET p == (x * (PI - x)) \div Unit
        pisq == (PI * PI) \div Unit
    IN  (16 * Unit * p) \div (5 * pisq - 4 * p)

Sin(a) ==
    IF IsNaN(a) THEN NaN
    ELSE LET r == a % TwoPI
         IN  IF r <= PI THEN SinHalf(r) ELSE 0 - SinHalf(r - PI)

Cos(a) == IF IsNaN(a) THEN NaN ELSE Sin(a + PI \div 2)

\* f64::exp on a non-positive argument -z (z >= 0 in thousandths):
\* exp(-z) = exp(-z/8)^8, the inner one by its Taylor polynomial.
Sq(t) == (t * t) \div Unit

ExpNeg(z) ==
    IF IsNaN(z) THEN NaN
    ELSE IF z >= 8 * Unit THEN 0
    ELSE LET u == z \div 8
             t == Unit - u + (u * u) \div (2 * Unit)
                    - (u * u * u) \div (6 * Unit * Unit)
         IN  Sq(Sq(Sq(t)))

Exp(a) == IF IsNaN(a) THEN NaN ELSE IF a > 0 THEN Unit + a ELSE ExpNeg(0 - a)

\* Integer square root, by bisection.
RECURSIVE ISqrtIn(_, _, _)
ISqrtIn(n, lo, hi) ==
    IF lo >= hi THEN lo
    ELSE LET mid == (lo + hi + 1) \div 2
         IN  IF mid * mid <= n THEN ISqrtIn(n, mid, hi) ELSE ISqrtIn(n, lo, mid - 1)

\* h.powf(1.5): NaN for a negative base, as powf with a fractional exponent.
Powf15(h) ==
    IF IsNaN(h) \/ h < 0 THEN NaN
    ELSE (h * ISqrtIn(h * Unit, 0, 2 * Unit)) \div Unit

\* -------------------------------------------------------------- data model
Biomes ==
    {"Ocean", "Coast", "Grassland", "Forest", "Desert", "Hill", "Mountain",
     "Ice", "Alpine", "Snow", "Tundra", "BorealForest", "Taiga", "ColdDesert",
     "TemperateForest", "TemperateRainforest", "HotDesert", "Savanna",
     "SubtropicalForest", "TropicalRainforest"}

Square(b, e, t, m) ==
    [biome |-> b, elevation |-> e, temperature |-> t, moisture |-> m]

\* Square::default(), which fills the chunk buffer (halo cells keep it).
DefaultSquare == Square("Ocean", 0, 0, 0)

\* ------------------------------------------------------- biome classifier
BandBiome(temp_c, moisture) ==
    IF FLt(temp_c, 0 - 5 * Unit) THEN
        (IF FLt(moisture, 400) THEN "Tundra" ELSE "BorealForest")
    ELSE IF FLt(temp_c, 5 * Unit) THEN
        (IF FLt(moisture, 300) THEN "Tundra" ELSE "Taiga")
    ELSE IF FLt(temp_c, 18 * Unit) THEN
        (IF FLt(moisture, 200) THEN "ColdDesert"
         ELSE IF FLt(moisture, 500) THEN "Grassland"
         ELSE IF FLt(moisture, 750) THEN "TemperateForest"
         ELSE "TemperateRainforest")
    ELSE IF FLt(temp_c, 25 * Unit) THEN
        (IF FLt(moisture, 200) THEN "HotDesert"
         ELSE IF FLt(moisture, 500) THEN "Savanna"
         ELSE "SubtropicalForest")
    ELSE
        (IF FLt(moisture, 200) THEN "HotDesert"
         ELSE IF FLt(moisture, 450) THEN "Savanna"
         ELSE "TropicalRainforest")

\* Two slips the classifier could have: the Alpine rule answering with the
\* legacy tag Mountain; the Ice rule tried before the Ocean rule.
biome_from_climate_legacy(temp_c, moisture, elevation, max_elevation) ==
    LET sea_level_elevation == FMul(max_elevation, SEA_LEVEL)
    IN  IF FLt(elevation, sea_level_elevation) THEN "Ocean"
        ELSE IF FLt(temp_c, 0 - 10 * Unit) THEN "Ice"
        ELSE IF FGt(elevation, FMul(750, max_elevation)) /\ FLe(temp_c, 0)
            THEN "Snow"
        ELSE IF FGt(elevation, FMul(600, max_elevation)) /\ FLe(temp_c, 2 * Unit)
            THEN "Mountain"
        ELSE BandBiome(temp_c, moisture)

biome_from_climate_ice_first(temp_c, moisture, elevation, max_elevation) ==
    LET sea_level_elevation == FMul(max_elevation, SEA_LEVEL)
    IN  IF FLt(temp_c, 0 - 10 * Unit) THEN "Ice"
        ELSE IF FLt(elevation, sea_level_elevation) THEN "Ocean"
        ELSE IF FGt(elevation, FMul(750, max_elevation)) /\ FLe(temp_c, 0)
            THEN "Snow"
        ELSE IF FGt(elevation, FMul(600, max_elevation)) /\ FLe(temp_c, 2 * Unit)
            THEN "Alpine"
        ELSE BandBiome(temp_c, moisture)

biome_from_climate(temp_c, moisture, elevation, max_elevation) ==
    LET sea_level_elevation == FMul(max_elevation, SEA_LEVEL)
    IN  IF FLt(elevation, sea_level_elevation) THEN "Ocean"
        ELSE IF FLt(temp_c, 0 - 10 * Unit) THEN "Ice"
        ELSE IF FGt(elevation, FMul(750, max_elevation)) /\ FLe(temp_c, 0)
            THEN "Snow"
        ELSE IF FGt(elevation, FMul(600, max_elevation)) /\ FLe(temp_c, 2 * Unit)
            THEN "Alpine"
        ELSE BandBiome(temp_c, moisture)

\* -------------------------------------------------------------- noise field
\* OpenSimplex::new(seed).get([a, b, c, d]) of the noise crate: a fixed
\* function of the seed and the point with values in [-1, 1].  The crate is
\* not part of the repository; it is modelled as a hash.
OpenSimplexGet(seed, a, b, c, d) ==
    IF IsNaN(a) \/ IsNaN(b) \/ IsNaN(c) \/ IsNaN(d) THEN NaN
    ELSE ((seed * 389 + a * 3 + b * 5 + c * 7 + d * 11) % (2 * Unit + 1)) - Unit

NoiseAt(seed, t_position, scale) ==
    OpenSimplexGet(seed,
                   FScale(t_position[1], scale), FScale(t_position[2], scale),
                   FScale(t_position[3], scale), FScale(t_position[4], scale))

\* ----------------------------------------------------- elevation synthesizer
\* The match with its arms tried from the last range to the first, the
\* end points going to the later arm.
get_land_strength_last_arm_first(elevation) ==
    IF IsNaN(elevation) THEN 0
    ELSE IF 500 <= elevation /\ elevation <= Unit THEN Unit
    ELSE IF 0 <= elevation /\ elevation <= 500 THEN 800
    ELSE IF 0 - 500 <= elevation /\ elevation <= 0 THEN 500
    ELSE IF 0 - Unit <= elevation /\ elevation <= 0 - 500 THEN 100
    ELSE 0

get_land_strength(elevation) ==
    IF IsNaN(elevation) THEN 0
    ELSE IF elevation = 0 - Unit THEN 0
    ELSE IF 0 - Unit <= elevation /\ elevation <= 0 - 500 THEN 100
    ELSE IF 0 - 500 <= elevation /\ elevation <= 0 THEN 500
    ELSE IF 0 <= elevation /\ elevation <= 500 THEN 800
    ELSE IF 500 <= elevation /\ elevation <= Unit THEN Unit
    ELSE 0

\* The octave loop: <<elevation_terrain, max_possible_amplitude>> after the
\* octaves k .. num_of_octaves - 1.
RECURSIVE OctaveLoop(_, _, _, _, _, _, _, _)
OctaveLoop(k, num_of_octaves, seed, t_position, scale_terrain, amplitude, elevation_terrain, max_possible_amplitude) ==
    IF k >= num_of_octaves THEN <<elevation_terrain, max_possible_amplitude>>
    ELSE OctaveLoop(k + 1, num_of_octaves, seed, t_position,
                    scale_terrain * 2, amplitude \div 2,
                    FAdd(elevation_terrain,
                         FMul(NoiseAt(seed, t_position, scale_terrain), amplitude)),
                    max_possible_amplitude + amplitude)

\* The elevation from the continental sample and the normalized terrain
\* sample elevation_terrain / max_possible_amplitude:
\* ((elevation_normalized + 1.0) / 2.0) * top.
ElevationOfSamples(elevation_continental, terrain_normalized, top) ==
    LET sea_bias == 75
        elevation_normalized ==
            FAdd(FSub(elevation_continental, sea_bias),
                 FMul(terrain_normalized, get_land_strength(elevation_continental)))
    IN  FMul(FDiv(FAdd(elevation_normalized, Unit), 2 * Unit), top)

\* The elevation of a 4D point: the body shared by get_elevation_at_position
\* and the closure of generate_logical_world.
ElevationFinal(t_position, world_data, top) ==
    LET oct == OctaveLoop(0, world_data.num_of_octaves, world_data.seed,
                          t_position, world_data.terrain_scale, Unit, 0, 0)
        elevation_terrain == oct[1]
        max_possible_amplitude == oct[2]
        elevation_continental ==
            NoiseAt(world_data.seed + 1, t_position, world_data.continental_scale)
    IN  ElevationOfSamples(elevation_continental,
                           FDiv(elevation_terrain, max_possible_amplitude), top)

get_elevation_at_position(t_position, world_data) ==
    ElevationFinal(t_position, world_data, MAX_ELEVATION)

\* -------------------------------------------------------- climate synthesizer
\* temperature_latitude + temperature_elevation + temperature_noise.
TemperatureSum(latitude, elevation_final, top, temperature_noise_raw) ==
    LET temperature_latitude == FSub(30 * Unit, FMul(40 * Unit, latitude))
        h == FDiv(elevation_final, top)
        temperature_elevation == FMul(FNeg(Powf15(h)), 15 * Unit)
        temperature_noise == FMul(temperature_noise_raw, 5 * Unit)
    IN  FAdd(FAdd(temperature_latitude, temperature_elevation), temperature_noise)

\* clamp(moisture_base + moisture_latitude + moisture_elevation, 0, 1).
MoistureSum(latitude, elevation_final, top, moisture_noise) ==
    LET moisture_base == FDiv(FAdd(moisture_noise, Unit), 2 * Unit)
        equator_wet == Exp(FMul(FNeg(latitude), 3 * Unit))
        d == FSub(latitude, 300)
        subtropical_dry == Exp(FDiv(FNeg(FMul(d, d)), 20))
        moisture_latitude == FSub(equator_wet, FMul(400, subtropical_dry))
        moisture_elevation == FMul(FNeg(FDiv(elevation_final, top)), 250)
    IN  FClamp01(FAdd(FAdd(moisture_base, moisture_latitude), moisture_elevation))

HalfWorld == (WORLD_SIZE * Unit) \div 2

\* The latitude get_temperature_at_position takes for a 4D point.
TemperatureLatitudeAt(t_position, world_data) ==
    LET ny == t_position[2]
        y_lat == FAdd(FDiv(ny, world_data.scaling_factor), HalfWorld)
    IN  FDiv(FAbs(FSub(y_lat, HalfWorld)), HalfWorld)

\* The latitude get_moisture_at_position takes for a 4D point.
MoistureLatitudeAt(t_position, world_data) ==
    LET ny == t_position[2]
    IN  FDiv(FAbs(FSub(FDiv(ny, world_data.scaling_factor), HalfWorld)), HalfWorld)

get_temperature_at_position(t_position, elevation_final, world_data) ==
    LET latitude == TemperatureLatitudeAt(t_position, world_data)
    IN  TemperatureSum(latitude, elevation_final, 100 * Unit,
                       NoiseAt(world_data.seed + 2, t_position,
                               world_data.temperature_scale))

get_moisture_at_position(t_position, elevation_final, world_data) ==
    LET latitude == MoistureLatitudeAt(t_position, world_data)
    IN  MoistureSum(latitude, elevation_final, 100 * Unit,
                    NoiseAt(world_data.seed + 3, t_position,
                            world_data.moisture_scale))

\* The 4D point of a pair of angles (thousandths of a radian).
TorusPoint(x, y, world_data) ==
    <<FMul(Cos(x), world_data.scaling_factor), FMul(Sin(x), world_data.scaling_factor),
      FMul(Cos(y), world_data.scaling_factor), FMul(Sin(y), world_data.scaling_factor)>>

\* generate_square_at_position takes the grid coordinates themselves (as f64)
\* for the angles x and y.
ChunkTorusPoint(x, y, world_data) == TorusPoint(x * Unit, y * Unit, world_data)

generate_square_at_position(world_data, x, y) ==
    LET t_position == ChunkTorusPoint(x, y, world_data)
        elevation_final == get_elevation_at_position(t_position, world_data)
        temperature_final ==
            get_temperature_at_position(t_position, elevation_final, world_data)
        moisture_final ==
            get_moisture_at_position(t_position, elevation_final, world_data)
    IN  Square("Ocean", ToF32(elevation_final), ToF32(temperature_final),
               ToF32(moisture_final))

\* ------------------------------------------- whole world: the per-cell stage
\* coordinate as f64 / WORLD_SIZE as f64 * 2.0 * PI
WorldAngle(coordinate) ==
    FMul(FMul(FDiv(coordinate * Unit, WORLD_SIZE * Unit), 2 * Unit), PI)

\* A slip the closure could have: the column's angle taken for y and the
\* row's for x.
WorldTorusPointTransposed(gx, gy, world_data) ==
    TorusPoint(WorldAngle(gy), WorldAngle(gx), world_data)

WorldTorusPoint(gx, gy, world_data) ==
    TorusPoint(WorldAngle(gx), WorldAngle(gy), world_data)

\* The latitude the closure takes for the temperature of index i: from
\* y_lat, the row.
WorldTemperatureLatitude(i) ==
    LET y_lat == (i \div WORLD_SIZE) * Unit
    IN  FDiv(FAbs(FSub(y_lat, HalfWorld)), HalfWorld)

\* The latitude the closure takes for the moisture of index i: from y, the
\* angle of the row.
WorldMoistureLatitude(i) ==
    LET y == WorldAngle(i \div WORLD_SIZE)
    IN  FDiv(FAbs(FSub(y, HalfWorld)), HalfWorld)

\* The closure of the parallel map, for index i.
MapClosure(i, world_data) ==
    LET t_position == WorldTorusPoint(i % WORLD_SIZE, i \div WORLD_SIZE, world_data)
        elevation_final == ElevationFinal(t_position, world_data, LocalMaxElevation)
        latitude == WorldTemperatureLatitude(i)
        temperature_final ==
            TemperatureSum(latitude, elevation_final, LocalMaxElevation,
                           NoiseAt(world_data.seed + 2, t_position,
                                   world_data.temperature_scale))
        latitude_m == WorldMoistureLatitude(i)
        moisture_final ==
            MoistureSum(latitude_m, elevation_final, LocalMaxElevation,
                        NoiseAt(world_data.seed + 3, t_position,
                                world_data.moisture_scale))
    IN  Square("Ocean", ToF32(elevation_final), ToF32(temperature_final),
               ToF32(moisture_final))

\* ------------------------------------------------------ moisture advection
\* A pass that adds the moisture it should take.
AdvectedMoistureGain(cur_elevation, upwind_elevation, upwind_moisture, top) ==
    LET rain_loss == 400
        height_diff ==
            ToF32(FDiv(ToF32(FSub(cur_elevation, upwind_elevation)), top))
        moisture ==
            IF FGt(height_diff, 0)
            THEN ToF32(FAdd(upwind_moisture, ToF32(FMul(height_diff, rain_loss))))
            ELSE upwind_moisture
    IN  FClamp01(moisture)

\* A pass that takes moisture for every difference of height, down as up.
AdvectedMoistureBothWays(cur_elevation, upwind_elevation, upwind_moisture, top) ==
    LET rain_loss == 400
        height_diff ==
            ToF32(FDiv(ToF32(FAbs(FSub(cur_elevation, upwind_elevation))), top))
        moisture ==
            IF FGt(height_diff, 0)
            THEN ToF32(FSub(upwind_moisture, ToF32(FMul(height_diff, rain_loss))))
            ELSE upwind_moisture
    IN  FClamp01(moisture)

\* The loop body's arithmetic, in f32: the moisture of a cell from its own
\* elevation and its upwind neighbour's elevation and moisture.
AdvectedMoisture(cur_elevation, upwind_elevation, upwind_moisture, top) ==
    LET rain_loss == 400
        height_diff ==
            ToF32(FDiv(ToF32(FSub(cur_elevation, upwind_elevation)), top))
        moisture ==
            IF FGt(height_diff, 0)
            THEN ToF32(FSub(upwind_moisture, ToF32(FMul(height_diff, rain_loss))))
            ELSE upwind_moisture
    IN  FClamp01(moisture)

\* A slip the loop body could have: classifying with the moisture the cell
\* held before the pass.
ClassifyCellStale(sq, moisture, top) ==
    biome_from_climate(sq.temperature, sq.moisture, sq.elevation, top)

\* The biome the loop body stores for a cell, given the moisture it stores.
ClassifyCell(sq, moisture, top) ==
    biome_from_climate(sq.temperature, moisture, sq.elevation, top)

\* ------------------------------------------------------------------- state
VARIABLES
    world_data,   \* the WorldData entity read by generate_world
    pc,           \* where generate_logical_world is: start, par, adv, done
    seg,          \* the contiguous index range each worker maps
    cur,          \* the next index each worker maps
    arrived,      \* how many cells the parallel stage has produced so far
    squares,      \* the Vec<Square> being collected, then rewritten in place
    adv_i,        \* the index of the sequential loop
    world_map,    \* the WorldMap returned, NoWorldMap before
    chunk_at,     \* <<chunk_x, chunk_y>> of the last generate_chunk_data call
    chunk_buf,    \* the buffer that call returned
    fn_in,        \* the arguments of a call of a pure function
    fn_out,       \* <<what the call returned>>, <<>> before
    game_state,   \* State<GameState>
    next_state,   \* NextState<GameState>: Unchanged, or the state requested
    focus,        \* which text field holds Focused: none, octave, other
    octave_text,  \* InputValue.text of the octave field
    world_data_entities,  \* the WorldData entities, in spawn order
    world_map_entities,   \* how many WorldMap entities there are
    mesh_entities,        \* how many Mesh2d entities there are
    cursor,       \* <<x, y>> of the last cursor position looked up, <<>> before
    biome_display \* the biome named in the text of the BiomeDisplayUI entity

chunkVars == <<chunk_at, chunk_buf>>
fnVars == <<fn_in, fn_out>>
appVars ==
    <<game_state, next_state, focus, octave_text, world_data_entities,
      world_map_entities, mesh_entities>>
uiVars == <<cursor, biome_display>>

vars ==
    <<world_data, pc, seg, cur, arrived, squares, adv_i, world_map, chunkVars,
      fnVars, appVars, uiVars>>

\* The app as it starts: init_state::<GameState>() gives the default state
\* MainMenu; nothing is spawned yet.
AppStartup ==
    /\ game_state = "MainMenu"
    /\ next_state = "Unchanged"
    /\ focus = "none"
    /\ octave_text = <<>>
    /\ world_data_entities = <<>>
    /\ world_map_entities = 0
    /\ mesh_entities = 0

\* setup_biome_display: Text::new("").
UiStartup ==
    /\ cursor = <<>>
    /\ biome_display = ""

NumCells == WORLD_SIZE * WORLD_SIZE
Cells == 0 .. NumCells - 1
Workers == {1, 2}
NumWorkers == Cardinality(Workers)

\* A slot of the collected vector nothing was written to yet.
NoSquare == Square("unset", 0, 0, 0)
NoWorldMap == [width |-> 0, height |-> 0, squares |-> <<>>]

\* The WorldData values generation is run on: what read_worldgen_inputs can
\* spawn (any u32 octave count, 0 included; the default scales).
DefaultWorldData ==
    [seed |-> 42, terrain_scale |-> 5000, continental_scale |-> 500,
     num_of_octaves |-> 4, sea_threshold |-> 480, temperature_scale |-> 5000,
     moisture_scale |-> 8000, scaling_factor |-> 100 * Unit]

Configs ==
    { [DefaultWorldData EXCEPT !.seed = s, !.num_of_octaves = o,
                               !.scaling_factor = f * Unit] :
        s \in {42, 7}, o \in {0, 1, 3}, f \in {100, 10} }

\* The contiguous pieces the parallel iterator is split in: worker w maps
\* the indices lo .. hi - 1.
Splits ==
    { b \in [0 .. NumWorkers -> 0 .. NumCells] :
        /\ b[0] = 0
        /\ b[NumWorkers] = NumCells
        /\ \A w \in Workers : b[w - 1] <= b[w] }

\* The slot of the collected vector that the result for index i goes to:
\* collect() of an indexed parallel iterator keeps the order of the indices.
CollectSlotByArrival(i) == arrived

CollectSlot(i) == i

\* ------------------------------------------------------------------ actions
\* generate_world: the WorldData is found and generate_logical_world starts
\* its parallel map, split among the workers.
StartGeneration ==
    /\ pc = "start"
    /\ \E b \in Splits :
        /\ seg' = [w \in Workers |-> [lo |-> b[w - 1], hi |-> b[w]]]
        /\ cur' = [w \in Workers |-> b[w - 1]]
    /\ pc' = "par"
    /\ UNCHANGED <<world_data, arrived, squares, adv_i, world_map, chunkVars, fnVars, appVars,
                   uiVars>>

\* One worker maps its next index.
MapCell(w) ==
    /\ pc = "par"
    /\ cur[w] < seg[w].hi
    /\ squares' = [squares EXCEPT ![CollectSlot(cur[w])] = MapClosure(cur[w], world_data)]
    /\ cur' = [cur EXCEPT ![w] = cur[w] + 1]
    /\ arrived' = arrived + 1
    /\ UNCHANGED <<world_data, pc, seg, adv_i, world_map, chunkVars, fnVars, appVars,
                   uiVars>>

\* A collect that returned as soon as one worker had finished its piece.
CollectedByAnyWorker == \E w \in Workers : cur[w] = seg[w].hi

\* Whether collect() can return: every worker has finished its piece.
Collected == \A w \in Workers : cur[w] = seg[w].hi

\* collect() returns once every worker has finished its piece; the pieces
\* and their cursors are gone with the parallel iterator.
Collect ==
    /\ pc = "par"
    /\ Collected
    /\ pc' = "adv"
    /\ adv_i' = 0
    /\ seg' = [w \in Workers |-> [lo |-> 0, hi |-> 0]]
    /\ cur' = [w \in Workers |-> 0]
    /\ arrived' = 0
    /\ UNCHANGED <<world_data, squares, world_map, chunkVars, fnVars, appVars,
                   uiVars>>

\* The index the loop reads for index i.
UpwindIndex(i) == IF i = WORLD_SIZE * WORLD_SIZE - 1 THEN 0 ELSE i + 1

\* A loop body that writes the whole upwind cell, reclassified, to slot i.
AdvectIterWholeCell(sq, i) ==
    LET upwind_i == UpwindIndex(i)
        moisture == AdvectedMoisture(sq[i].elevation, sq[upwind_i].elevation,
                                     sq[upwind_i].moisture, LocalMaxElevation)
    IN  [sq EXCEPT ![i] = [sq[upwind_i] EXCEPT !.moisture = moisture,
                                               !.biome = ClassifyCell(sq[i], moisture,
                                                                      LocalMaxElevation)]]

\* The body of the sequential loop for index i, on the vector sq.
AdvectIter(sq, i) ==
    LET upwind_i == UpwindIndex(i)
        cur_elevation == sq[i].elevation
        upwind_elevation == sq[upwind_i].elevation
        upwind_moisture == sq[upwind_i].moisture
        moisture == AdvectedMoisture(cur_elevation, upwind_elevation, upwind_moisture,
                                     LocalMaxElevation)
    IN  [sq EXCEPT ![i] = [sq[i] EXCEPT !.moisture = moisture,
                                        !.biome = ClassifyCell(sq[i], moisture,
                                                               LocalMaxElevation)]]

AdvectStep ==
    /\ pc = "adv"
    /\ adv_i < WORLD_SIZE * WORLD_SIZE
    /\ squares' = AdvectIter(squares, adv_i)
    /\ adv_i' = adv_i + 1
    /\ UNCHANGED <<world_data, pc, seg, cur, arrived, world_map, chunkVars, fnVars, appVars,
                   uiVars>>

\* The loop is over: the WorldMap is built and returned; generate_world
\* spawns it and requests the state Playing.
Finish ==
    /\ pc = "adv"
    /\ adv_i = WORLD_SIZE * WORLD_SIZE
    /\ world_map' = [width |-> WORLD_SIZE, height |-> WORLD_SIZE, squares |-> squares]
    /\ pc' = "done"
    /\ world_map_entities' = world_map_entities + 1
    /\ next_state' = "Playing"
    /\ UNCHANGED <<world_data, seg, cur, arrived, squares, adv_i, chunkVars, fnVars>>
    /\ UNCHANGED <<game_state, focus, octave_text, world_data_entities, mesh_entities,
                   uiVars>>

\* ---------------------------------------------------------- chunked variant
ChunkWidth == CHUNK_SIZE + HALO
ChunkLen == ChunkWidth * CHUNK_SIZE

\* The length of the buffer generate_chunk_primary allocates, and the two
\* indices the pass computes for the cell (x, y), for a halo of `halo` columns.
ChunkBufferLen(halo) == (CHUNK_SIZE + halo) * CHUNK_SIZE

ChunkCellIndex(y, x, halo) == y * (CHUNK_SIZE + halo) + x

\* A pass that looks two columns ahead.
ChunkUpwindIndexTwoAhead(y, x, halo) == y * (CHUNK_SIZE + halo) + (x + 2)

ChunkUpwindIndex(y, x, halo) == y * (CHUNK_SIZE + halo) + (x + 1)

generate_chunk_primary(chunk_x, chunk_y, wd) ==
    LET size == CHUNK_SIZE + HALO
    IN  [i \in 0 .. ChunkBufferLen(HALO) - 1 |->
            LET x == i % size
                y == i \div size
            IN  IF x < CHUNK_SIZE
                THEN generate_square_at_position(wd, x + chunk_x * CHUNK_SIZE,
                                                 y + chunk_y * CHUNK_SIZE)
                ELSE DefaultSquare]

\* The body of the chunk pass for the cell (x, y), on the buffer sq.
ChunkPassIter(sq, y, x) ==
    LET i == ChunkCellIndex(y, x, HALO)
        upwind_i == ChunkUpwindIndex(y, x, HALO)
        moisture == AdvectedMoisture(sq[i].elevation, sq[upwind_i].elevation,
                                     sq[upwind_i].moisture, MAX_ELEVATION)
    IN  [sq EXCEPT ![i] = [sq[i] EXCEPT !.moisture = moisture,
                                        !.biome = ClassifyCell(sq[i], moisture,
                                                               MAX_ELEVATION)]]

\* for y in 0..CHUNK_SIZE { for x in 0..CHUNK_SIZE { ... } }, from step k on.
RECURSIVE ChunkPassFrom(_, _)
ChunkPassFrom(sq, k) ==
    IF k >= CHUNK_SIZE * CHUNK_SIZE THEN sq
    ELSE ChunkPassFrom(ChunkPassIter(sq, k \div CHUNK_SIZE, k % CHUNK_SIZE), k + 1)

apply_moisture_pass_and_assign_biomes(sq) == ChunkPassFrom(sq, 0)

\* The pass is applied to a clone of the buffer, which is then dropped; the
\* buffer returned is the one generate_chunk_primary built.
generate_chunk_data(chunk_x, chunk_y, wd) ==
    LET chunk_squares == generate_chunk_primary(chunk_x, chunk_y, wd)
        passed_clone == apply_moisture_pass_and_assign_biomes(chunk_squares)
    IN  chunk_squares

\* A call of generate_chunk_data for one chunk of the generated world (the
\* chunk one past the last column or row wraps around the torus).
GenerateChunkData(chunk_x, chunk_y) ==
    /\ pc = "done"
    /\ chunk_at' = <<chunk_x, chunk_y>>
    /\ chunk_buf' = generate_chunk_data(chunk_x, chunk_y, world_data)
    /\ UNCHANGED <<world_data, pc, seg, cur, arrived, squares, adv_i, world_map, fnVars, appVars,
                   uiVars>>

\* ------------------------------------------------------------ specification
\* generate_world runs on entering WorldGenerating, with the one WorldData
\* entity it reads.  fn_out is <<>> before the call of a pure function and
\* <<result>> after it.
NoResult == <<>>

Init ==
    /\ world_data \in Configs
    /\ pc = "start"
    /\ seg = [w \in Workers |-> [lo |-> 0, hi |-> 0]]
    /\ cur = [w \in Workers |-> 0]
    /\ arrived = 0
    /\ squares = [i \in Cells |-> NoSquare]
    /\ adv_i = 0
    /\ world_map = NoWorldMap
    /\ chunk_at = <<>>
    /\ chunk_buf = <<>>
    /\ fn_in = <<>>
    /\ fn_out = NoResult
    /\ game_state = "WorldGenerating"
    /\ next_state = "Unchanged"
    /\ focus = "none"
    /\ octave_text = <<>>
    /\ world_data_entities = <<world_data>>
    /\ world_map_entities = 0
    /\ mesh_entities = 0
    /\ UiStartup

Next ==
    \/ StartGeneration
    \/ \E w \in Workers : MapCell(w)
    \/ Collect
    \/ AdvectStep
    \/ Finish
    \/ \E chunk_x \in 0 .. CHUNKS_SIZE, chunk_y \in 0 .. CHUNKS_SIZE :
        GenerateChunkData(chunk_x, chunk_y)

Spec == Init /\ [][Next]_vars

\* ------------------------------------------------------- toroidal indexing
\* i32 is modelled by a two's complement integer of IntBits bits, usize by
\* one of twice that width.  An overflowing +, * panics in a debug build and
\* wraps in a release build; Overflowed stands for the panic.
I32_MAX == 2 ^ (IntBits - 1) - 1
I32_MIN == 0 - 2 ^ (IntBits - 1)
Overflowed == I32_MAX + 1
Builds == {"debug", "release"}

WrapI32(v) == ((v - I32_MIN) % (2 ^ IntBits)) + I32_MIN

I32Result(v, build) ==
    IF I32_MIN <= v /\ v <= I32_MAX THEN v
    ELSE IF build = "debug" THEN Overflowed
    ELSE WrapI32(v)

I32Add(a, b, build) ==
    IF a = Overflowed \/ b = Overflowed THEN Overflowed ELSE I32Result(a + b, build)

I32Mul(a, b, build) ==
    IF a = Overflowed \/ b = Overflowed THEN Overflowed ELSE I32Result(a * b, build)

\* Rust's % on i32: the remainder has the sign of the dividend (m > 0 here).
I32Rem(v, m) ==
    IF v = Overflowed THEN Overflowed
    ELSE IF v >= 0 THEN v % m ELSE 0 - ((0 - v) % m)

\* `as usize` of an i32: a negative value becomes a huge index.
AsUsize(v) == IF v = Overflowed THEN Overflowed ELSE IF v < 0 THEN v + 2 ^ (2 * IntBits) ELSE v

wrap_rem_only(v, max, build) == I32Rem(v, max)

wrap(v, max, build) == I32Rem(I32Add(I32Rem(v, max), max, build), max)

index_toroidal(x, y, size, build) ==
    LET wx == wrap(x, size, build)
        wy == wrap(y, size, build)
    IN  AsUsize(I32Add(I32Mul(wy, size, build), wx, build))

\* The index generate_chunk reads for the cell it draws at position
\* (x + chunk_x * CHUNK_SIZE, y + chunk_y * CHUNK_SIZE).
RenderedIndex(chunk_x, chunk_y, x, y, build) ==
    LET x_i32 == x + (chunk_x * CHUNK_SIZE)
        y_i32 == y + (chunk_y * CHUNK_SIZE)
    IN  index_toroidal(x_i32, y_i32, WORLD_SIZE, build)

\* ----------------------------------------- the pure functions, called alone
\* Every variable of the generation is left as it is before a generation.
GenerationIdle ==
    /\ world_data = DefaultWorldData
    /\ pc = "fn"
    /\ seg = [w \in Workers |-> [lo |-> 0, hi |-> 0]]
    /\ cur = [w \in Workers |-> 0]
    /\ arrived = 0
    /\ squares = [i \in Cells |-> NoSquare]
    /\ adv_i = 0
    /\ world_map = NoWorldMap
    /\ chunk_at = <<>>
    /\ chunk_buf = <<>>

Idle ==
    /\ GenerationIdle
    /\ AppStartup
    /\ UiStartup

genVars == <<world_data, pc, seg, cur, arrived, squares, adv_i, world_map, chunkVars>>

\* Arguments of biome_from_climate: every cut-off of the table, the values
\* one thousandth below and above it, and the extremes; and the two ways a
\* NaN gets there: a cell of a world of zero octaves (0.0 / 0.0, so all
\* three are NaN), and a cell below elevation 0 (powf of a negative base, so
\* the temperature is NaN).
Around(S) == S \cup {v - 1 : v \in S} \cup {v + 1 : v \in S}

TempInputs ==
    Around({0 - 10 * Unit, 0 - 5 * Unit, 0, 2 * Unit, 5 * Unit, 18 * Unit, 25 * Unit})
        \cup {0 - 40 * Unit, 35 * Unit}

MoistureInputs == Around({200, 300, 400, 450, 500, 750}) \cup {0, Unit}

ElevationInputs ==
    Around({48 * Unit, 60 * Unit, 75 * Unit, 24 * Unit, 30 * Unit, 37500})
        \cup {0 - 3750, 0, 100 * Unit}

MaxElevationInputs == {100 * Unit, 50 * Unit}

BiomeInputs ==
    [temp_c : TempInputs, moisture : MoistureInputs,
     elevation : ElevationInputs, max_elevation : MaxElevationInputs]
        \cup [temp_c : {NaN}, moisture : {NaN}, elevation : {NaN},
              max_elevation : MaxElevationInputs]
        \cup [temp_c : {NaN}, moisture : MoistureInputs, elevation : {0 - 3750},
              max_elevation : MaxElevationInputs]

InitBiome ==
    /\ Idle
    /\ fn_in \in BiomeInputs
    /\ fn_out = NoResult

CallBiome ==
    /\ pc = "fn"
    /\ fn_out = NoResult
    /\ fn_out' = <<biome_from_climate(fn_in.temp_c, fn_in.moisture, fn_in.elevation,
                                      fn_in.max_elevation)>>
    /\ UNCHANGED <<genVars, appVars, uiVars, fn_in>>

SpecBiome == InitBiome /\ [][CallBiome]_vars

\* Arguments of index_toroidal: every size, and the coordinates at and around
\* 0, one size, two sizes and the ends of the i32 range.
InI32(v) == I32_MIN <= v /\ v <= I32_MAX

CoordInputs(size) ==
    { v \in {I32_MIN, I32_MIN + 1, 0 - 2 * size, 0 - size - 1, 0 - size, 0 - 1, 0, 1,
             size - 1, size, size + 1, 2 * size, I32_MAX - 1, I32_MAX} : InI32(v) }

InitIndex ==
    /\ Idle
    /\ \E size \in 1 .. I32_MAX :
        \E x \in CoordInputs(size), y \in CoordInputs(size), build \in Builds :
            fn_in = [x |-> x, y |-> y, size |-> size, build |-> build]
    /\ fn_out = NoResult

CallIndex ==
    /\ pc = "fn"
    /\ fn_out = NoResult
    /\ fn_out' = <<index_toroidal(fn_in.x, fn_in.y, fn_in.size, fn_in.build)>>
    /\ UNCHANGED <<genVars, appVars, uiVars, fn_in>>

SpecIndex == InitIndex /\ [][CallIndex]_vars

\* Samples of the two noise fields, within [-1, 1]: a grid of eighths, and
\* the ends of the ranges of get_land_strength with their neighbours.
SampleInputs ==
    {k * 125 : k \in (0 - 8) .. 8} \cup Around({0 - 500, 0, 500})
        \cup {0 - 999, 0 - 950, 999}

InitElevation ==
    /\ Idle
    /\ fn_in \in [c : SampleInputs, t : SampleInputs]
    /\ fn_out = NoResult

CallElevation ==
    /\ pc = "fn"
    /\ fn_out = NoResult
    /\ fn_out' = <<ElevationOfSamples(fn_in.c, fn_in.t, LocalMaxElevation)>>
    /\ UNCHANGED <<genVars, appVars, uiVars, fn_in>>

SpecElevation == InitElevation /\ [][CallElevation]_vars

\* ------------------------------------------------------- the app's states
\* The menus, the text field of the octave count and the entities spawned
\* and despawned on the way.  The other seven text fields are one field
\* "other", its text not kept: the WorldData gets the values of
\* DefaultWorldData for them.
MaxTextLen == 2
MaxWorldData == 2

Keys == {"0", "3", "x", "Backspace"}
Fields == {"octave", "other"}

Digit(chr) == IF chr = "3" THEN 3 ELSE 0

RECURSIVE DigitsValue(_)
DigitsValue(text) ==
    IF text = <<>>
    THEN 0
    ELSE 10 * DigitsValue(SubSeq(text, 1, Len(text) - 1)) + Digit(text[Len(text)])

\* str::parse::<u32>: <<value>> for Ok(value), <<>> for Err: the empty
\* string and a string holding anything but digits do not parse.
ParseU32(text) ==
    IF text = <<>> \/ \E k \in 1 .. Len(text) : text[k] \notin {"0", "3"}
    THEN <<>>
    ELSE <<DigitsValue(text)>>

\* The entities and resources the OnExit and OnEnter systems work on.
World ==
    [data |-> world_data_entities, maps |-> world_map_entities,
     meshes |-> mesh_entities, text |-> octave_text, focused |-> focus,
     next |-> "Unchanged"]

\* One more WorldData is spawned, from what the fields hold.
read_worldgen_inputs(w) ==
    LET parsed == ParseU32(w.text)
        num_of_octaves == IF parsed = <<>> THEN 20 ELSE parsed[1]
    IN  [w EXCEPT !.data =
            Append(w.data, [DefaultWorldData EXCEPT !.num_of_octaves = num_of_octaves])]

\* The GameConfigUI tree is despawned, the text fields with it.
cleanup_game_config(w) == [w EXCEPT !.text = <<>>, !.focused = "none"]

\* Every field is spawned with an empty InputValue, none Focused.
setup_game_config(w) == [w EXCEPT !.text = <<>>, !.focused = "none"]

\* A generate_world that takes the first WorldData when there are several.
generate_world_first_of_several(w) ==
    IF Len(w.data) >= 1
    THEN [w EXCEPT !.maps = w.maps + 1, !.next = "Playing"]
    ELSE w

\* query.single() is Ok when exactly one WorldData exists; generate_world
\* then spawns the WorldMap generate_logical_world returns and asks for
\* Playing.  It returns at once otherwise.
generate_world(w) ==
    IF Len(w.data) = 1
    THEN [w EXCEPT !.maps = w.maps + 1, !.next = "Playing"]
    ELSE w

\* query.single() is Ok when exactly one WorldMap exists; one mesh per chunk
\* is spawned then.
render_world(w) ==
    IF w.maps = 1
    THEN [w EXCEPT !.meshes = w.meshes + CHUNKS_SIZE * CHUNKS_SIZE]
    ELSE w

cleanup_world(w) == [w EXCEPT !.data = <<>>, !.maps = 0, !.meshes = 0]

\* The systems of the schedules OnExit(state) and OnEnter(state).
OnExit(state, w) ==
    CASE state = "WorldGenSetup" -> cleanup_game_config(read_worldgen_inputs(w))
      [] state = "Playing" -> cleanup_world(w)
      [] OTHER -> w

OnEnter(state, w) ==
    CASE state = "WorldGenSetup" -> setup_game_config(w)
      [] state = "WorldGenerating" -> generate_world(w)
      [] state = "Playing" -> render_world(w)
      [] OTHER -> w

\* A button of the main menu is pressed.
main_menu_buttons(action) ==
    /\ game_state = "MainMenu"
    /\ next_state = "Unchanged"
    /\ Len(world_data_entities) < MaxWorldData
    /\ IF action = "NewGame"
       THEN next_state' = "WorldGenSetup" /\ game_state' = game_state
       ELSE game_state' = "Exited" /\ next_state' = next_state
    /\ UNCHANGED <<focus, octave_text, world_data_entities, world_map_entities,
                   mesh_entities, genVars, fnVars, uiVars>>

\* A text field is pressed: it is now the one that holds Focused.
focus_text_inputs(field) ==
    /\ game_state = "WorldGenSetup"
    /\ next_state = "Unchanged"
    /\ focus' = field
    /\ UNCHANGED <<game_state, next_state, octave_text, world_data_entities,
                   world_map_entities, mesh_entities, genVars, fnVars, uiVars>>

\* A key is pressed: the text of the focused field loses its last character
\* or gets one more.
game_config_text_input(key) ==
    /\ game_state = "WorldGenSetup"
    /\ next_state = "Unchanged"
    /\ focus # "none"
    /\ key # "Backspace" => Len(octave_text) < MaxTextLen
    /\ octave_text' =
          IF focus # "octave" THEN octave_text
          ELSE IF key # "Backspace" THEN Append(octave_text, key)
          ELSE IF octave_text = <<>> THEN octave_text
          ELSE SubSeq(octave_text, 1, Len(octave_text) - 1)
    /\ UNCHANGED <<game_state, next_state, focus, world_data_entities,
                   world_map_entities, mesh_entities, genVars, fnVars, uiVars>>

\* A button of the configuration screen is pressed.
game_config_buttons(action) ==
    /\ game_state = "WorldGenSetup"
    /\ next_state = "Unchanged"
    /\ next_state' = IF action = "Generate" THEN "Playing" ELSE "MainMenu"
    /\ UNCHANGED <<game_state, focus, octave_text, world_data_entities,
                   world_map_entities, mesh_entities, genVars, fnVars, uiVars>>

\* Escape is down while playing.
controls ==
    /\ game_state = "Playing"
    /\ next_state = "Unchanged"
    /\ next_state' = "MainMenu"
    /\ UNCHANGED <<game_state, focus, octave_text, world_data_entities,
                   world_map_entities, mesh_entities, genVars, fnVars, uiVars>>

\* The pending transition is applied: the systems of OnExit of the state
\* left, then those of OnEnter of the state entered.
StateTransition ==
    /\ game_state # "Exited"
    /\ next_state # "Unchanged"
    /\ LET w == OnEnter(next_state, OnExit(game_state, World))
       IN  /\ game_state' = next_state
           /\ next_state' = w.next
           /\ focus' = w.focused
           /\ octave_text' = w.text
           /\ world_data_entities' = w.data
           /\ world_map_entities' = w.maps
           /\ mesh_entities' = w.meshes
    /\ UNCHANGED <<genVars, fnVars, uiVars>>

InitApp ==
    /\ Idle
    /\ fn_in = <<>>
    /\ fn_out = NoResult

NextApp ==
    \/ \E action \in {"NewGame", "Quit"} : main_menu_buttons(action)
    \/ \E field \in Fields : focus_text_inputs(field)
    \/ \E key \in Keys : game_config_text_input(key)
    \/ \E action \in {"Generate", "Back"} : game_config_buttons(action)
    \/ controls
    \/ StateTransition

SpecApp == InitApp /\ [][NextApp]_vars

\* generate_world called alone, as the OnEnter system of WorldGenerating,
\* on none, one or several WorldData entities; fn_out tells that it has
\* returned.  The app goes on from there.
WorldDataInputs ==
    {DefaultWorldData, [DefaultWorldData EXCEPT !.num_of_octaves = 0]}

WorldDataEntitySets ==
    UNION {[1 .. n -> WorldDataInputs] : n \in 0 .. MaxWorldData}

InitGenerateWorld ==
    /\ GenerationIdle
    /\ UiStartup
    /\ game_state = "WorldGenerating"
    /\ next_state = "Unchanged"
    /\ focus = "none"
    /\ octave_text = <<>>
    /\ world_data_entities \in WorldDataEntitySets
    /\ world_map_entities = 0
    /\ mesh_entities = 0
    /\ fn_in = <<>>
    /\ fn_out = NoResult

CallGenerateWorld ==
    /\ game_state = "WorldGenerating"
    /\ fn_out = NoResult
    /\ fn_out' = <<"generate_world">>
    /\ LET w == generate_world(World)
       IN  /\ next_state' = w.next
           /\ world_data_entities' = w.data
           /\ world_map_entities' = w.maps
           /\ mesh_entities' = w.meshes
    /\ UNCHANGED <<game_state, focus, octave_text, genVars, fn_in, uiVars>>

NextGenerateWorld == CallGenerateWorld \/ NextApp

SpecGenerateWorld == InitGenerateWorld /\ [][NextGenerateWorld]_vars

\* The StateTransition schedule runs in every frame, so a pending transition
\* is applied.
SpecAppFair == SpecApp /\ WF_vars(StateTransition)

\* ------------------------------------------------------ the cursor lookup
\* The cursor positions looked up: the cells of the world and the positions
\* one and two cells off each of its edges.
CursorOverhang == 2
CursorCoords == (0 - CursorOverhang) .. (WORLD_SIZE - 1 + CursorOverhang)

\* The name the text gives a biome.
BiomeName(biome) ==
    CASE biome = "BorealForest" -> "Boreal Forest"
      [] biome = "ColdDesert" -> "Cold Desert"
      [] biome = "TemperateForest" -> "Temperate Forest"
      [] biome = "TemperateRainforest" -> "Temperate Rainforest"
      [] biome = "HotDesert" -> "Hot Desert"
      [] biome = "SubtropicalForest" -> "Subtropical Forest"
      [] biome = "TropicalRainforest" -> "Tropical Rainforest"
      [] OTHER -> biome

\* Whether the position passes the `if` that guards the lookup.
InWorldBounds(x, y) == x >= 0 /\ x < WORLD_SIZE /\ y >= 0 /\ y < WORLD_SIZE

\* The index the lookup reads.
LookupIndex(x, y, build) == index_toroidal(x, y, WORLD_SIZE, build)

\* The cursor is at world position (x, y): the system runs when there is a
\* single WorldMap, and rewrites the text only for a position inside the
\* world.
update_biome_display(x, y, build) ==
    /\ pc = "done"
    /\ world_map_entities = 1
    /\ cursor' = <<x, y>>
    /\ biome_display' =
          IF InWorldBounds(x, y)
          THEN BiomeName(world_map.squares[LookupIndex(x, y, build)].biome)
          ELSE biome_display
    /\ UNCHANGED <<genVars, fnVars, appVars>>

NextCursor ==
    \/ StartGeneration
    \/ \E w \in Workers : MapCell(w)
    \/ Collect
    \/ AdvectStep
    \/ Finish
    \/ \E x \in CursorCoords, y \in CursorCoords, build \in Builds :
        update_biome_display(x, y, build)

SpecCursor == Init /\ [][NextCursor]_vars

\* The world a single thread computes: the closure on every index in order,
\* then the sequential loop from its first index to its last.
RECURSIVE AdvectFrom(_, _)
AdvectFrom(sq, i) ==
    IF i >= NumCells THEN sq ELSE AdvectFrom(AdvectIter(sq, i), i + 1)

SequentialSquares(wd) == AdvectFrom([i \in Cells |-> MapClosure(i, wd)], 0)

\* ------------------------------------------------ the loop on a made-up row
\* The loop wraps at the end of the vector only, so it takes the vector for
\* one row of WORLD_SIZE * WORLD_SIZE columns.  The row it is run on here:
\* elevation first + i * rise in column i, the same moisture and temperature
\* in every column.
RowFirsts == {0, 10 * Unit, 20 * Unit}
RowRises == {F32Step, Unit \div 2, Unit, 3 * Unit}
RowMoistures == {0, F32Step, 300, Unit \div 2, 800, Unit}

SyntheticRow(in) ==
    [i \in Cells |-> Square("Ocean", in.first + i * in.rise, 15 * Unit, in.moisture)]

InitRow ==
    /\ Idle
    /\ fn_in \in [first : RowFirsts, rise : RowRises, moisture : RowMoistures]
    /\ fn_out = NoResult

\* The loop, from its first index to its last; fn_out is the moisture of
\* every column after it.
CallAdvectRow ==
    /\ pc = "fn"
    /\ fn_out = NoResult
    /\ fn_out' = <<[i \in Cells |-> AdvectFrom(SyntheticRow(fn_in), 0)[i].moisture]>>
    /\ UNCHANGED <<genVars, appVars, uiVars, fn_in>>

SpecRow == InitRow /\ [][CallAdvectRow]_vars

\* ------------------------------------------------------------- the latitude
\* The four latitudes the code takes for the cell in column x of row y: for
\* temperature and for moisture, in the closure of generate_logical_world
\* and in get_temperature_at_position / get_moisture_at_position as
\* generate_square_at_position calls them.
Latitudes(x, y, wd) ==
    [world_temperature |-> WorldTemperatureLatitude(y * WORLD_SIZE + x),
     world_moisture |-> WorldMoistureLatitude(y * WORLD_SIZE + x),
     position_temperature |-> TemperatureLatitudeAt(ChunkTorusPoint(x, y, wd), wd),
     position_moisture |-> MoistureLatitudeAt(ChunkTorusPoint(x, y, wd), wd)]

InitLatitude ==
    /\ Idle
    /\ fn_in \in [x : 0 .. WORLD_SIZE - 1, y : 0 .. WORLD_SIZE - 1, wd : Configs]
    /\ fn_out = NoResult

CallLatitude ==
    /\ pc = "fn"
    /\ fn_out = NoResult
    /\ fn_out' = <<Latitudes(fn_in.x, fn_in.y, fn_in.wd)>>
    /\ UNCHANGED <<genVars, appVars, uiVars, fn_in>>

SpecLatitude == InitLatitude /\ [][CallLatitude]_vars

\* ------------------------------------------------------- the land strength
\* Arguments of get_land_strength: a grid over [-1.2, 1.2], the end points of
\* the ranges with the values next to them, values far outside, and NaN.
LandInputs ==
    {k * F32Step : k \in (0 - 120) .. 120}
        \cup Around({0 - Unit, 0 - 500, 0, 500, Unit})
        \cup {0 - 5 * Unit, 5 * Unit, NaN}

InitLandStrength ==
    /\ Idle
    /\ fn_in \in [land : LandInputs]
    /\ fn_out = NoResult

CallLandStrength ==
    /\ pc = "fn"
    /\ fn_out = NoResult
    /\ fn_out' = <<get_land_strength(fn_in.land)>>
    /\ UNCHANGED <<genVars, appVars, uiVars, fn_in>>

SpecLandStrength == InitLandStrength /\ [][CallLandStrength]_vars

\* ---------------------------------------------------------- the noise seeds
\* u32 has the width of the machine integer.  <<sum>> of a u32 addition, or
\* <<>> when it panics: an overflowing `+` panics in a debug build and wraps
\* in a release build.
U32_MAX == 2 ^ IntBits - 1

U32Add(a, b, build) ==
    IF a + b <= U32_MAX THEN <<a + b>>
    ELSE IF build = "debug" THEN <<>>
    ELSE <<(a + b) % (U32_MAX + 1)>>

\* The seeds of noise_terrain, noise_continental, noise_temperature and
\* noise_moisture.
NoiseSeeds(seed, build) ==
    <<<<seed>>, U32Add(seed, 1, build), U32Add(seed, 2, build), U32Add(seed, 3, build)>>

InitSeeds ==
    /\ Idle
    /\ fn_in \in [seed : 0 .. U32_MAX, build : Builds]
    /\ fn_out = NoResult

CallSeeds ==
    /\ pc = "fn"
    /\ fn_out = NoResult
    /\ fn_out' = <<NoiseSeeds(fn_in.seed, fn_in.build)>>
    /\ UNCHANGED <<genVars, appVars, uiVars, fn_in>>

SpecSeeds == InitSeeds /\ [][CallSeeds]_vars

\* ------------------------------------------------- the indices of the pass
\* The indices the chunk pass computes for one cell, and the length of the
\* buffer, for halos of 0 to MaxHalo columns.
MaxHalo == 15

ChunkAccess(y, x, halo) ==
    [i |-> ChunkCellIndex(y, x, halo), upwind_i |-> ChunkUpwindIndex(y, x, halo),
     len |-> ChunkBufferLen(halo)]

InitChunkAccess ==
    /\ Idle
    /\ fn_in \in [halo : 0 .. MaxHalo, cx : 0 .. CHUNK_SIZE - 1, cy : 0 .. CHUNK_SIZE - 1]
    /\ fn_out = NoResult

CallChunkAccess ==
    /\ pc = "fn"
    /\ fn_out = NoResult
    /\ fn_out' = <<ChunkAccess(fn_in.cy, fn_in.cx, fn_in.halo)>>
    /\ UNCHANGED <<genVars, appVars, uiVars, fn_in>>

SpecChunkAccess == InitChunkAccess /\ [][CallChunkAccess]_vars

\* =================================================================== claims

\* C1: for a fixed WorldData, generate_logical_world returns the same
\* sequence of Squares under every partition of the parallel map among the
\* workers and every interleaving of the workers: the sequence a single
\* thread computes.  While the workers run, the slots written are exactly
\* those of the indices mapped so far.
C1_Deterministic ==
    /\ pc = "par" =>
        \A i \in Cells :
            squares[i] # NoSquare <=> \E w \in Workers : seg[w].lo <= i /\ i < cur[w]
    /\ pc = "done" => world_map.squares = SequentialSquares(world_data)

C1_Witness ==
    /\ pc = "done"
    /\ world_map.width = WORLD_SIZE
    /\ \E i \in Cells : world_map.squares[i].biome # "Ocean"
    /\ \E i \in Cells : world_map.squares[i].biome = "Ocean"

\* C2: in the WorldMap returned, every cell's biome is biome_from_climate of
\* that cell's stored temperature, stored final moisture and stored
\* elevation, with max_elevation = 100.
C2_BiomeOfStoredClimate ==
    pc = "done" =>
        \A i \in Cells :
            LET sq == world_map.squares[i]
            IN  sq.biome = biome_from_climate(sq.temperature, sq.moisture,
                                              sq.elevation, 100 * Unit)

C2_Witness ==
    /\ pc = "done"
    /\ \E i \in Cells :
        /\ world_map.squares[i].biome \notin {"Ocean", "unset"}
        /\ world_map.squares[i].moisture # MapClosure(i, world_data).moisture

\* The indices of the buffer's non-halo cells.
NonHalo == {i \in 0 .. ChunkLen - 1 : i % ChunkWidth < CHUNK_SIZE}

\* C3: every non-halo cell of the buffer generate_chunk_data returns holds
\* the moisture and the biome written by
\* apply_moisture_pass_and_assign_biomes, not the raw moisture and the
\* placeholder biome of generate_chunk_primary.

C3_ChunkPassed ==
    chunk_at # <<>> =>
        LET passed ==
                apply_moisture_pass_and_assign_biomes(
                    generate_chunk_primary(chunk_at[1], chunk_at[2], world_data))
        IN  \A i \in NonHalo :
                /\ chunk_buf[i].moisture = passed[i].moisture
                /\ chunk_buf[i].biome = passed[i].biome

InUnitInterval(m) == FLe(0, m) /\ FLe(m, Unit)

\* C4: after generation every cell has its final moisture within [0, 1]: the
\* cells of the world, and the cells (halo included) of a chunk buffer.

C4_MoistureBounds ==
    /\ pc = "done" => \A i \in Cells : InUnitInterval(world_map.squares[i].moisture)
    /\ chunk_at # <<>> =>
        \A i \in 0 .. ChunkLen - 1 : InUnitInterval(chunk_buf[i].moisture)

\* What holds of C4 on the code: the bounds, for a WorldData with at least
\* one octave.
C4_BoundsWithOctaves ==
    world_data.num_of_octaves >= 1 => C4_MoistureBounds

ClimateBiomes ==
    {"Ocean", "Ice", "Snow", "Alpine", "Tundra", "BorealForest", "Taiga",
     "ColdDesert", "Grassland", "TemperateForest", "TemperateRainforest",
     "HotDesert", "Savanna", "SubtropicalForest", "TropicalRainforest"}

\* C5: biome_from_climate is total and returns exactly one of the fifteen
\* climate biomes for every input, never Coast, Forest, Desert, Hill or
\* Mountain.
C5_FifteenBiomes ==
    fn_out # <<>> /\ "temp_c" \in DOMAIN fn_in =>
        /\ Len(fn_out) = 1
        /\ fn_out[1] \in ClimateBiomes
        /\ fn_out[1] \notin {"Coast", "Forest", "Desert", "Hill", "Mountain"}

C5_Witness ==
    /\ "temp_c" \in DOMAIN fn_in
    /\ fn_out = <<"Alpine">>
    /\ fn_in.elevation > 60 * Unit

\* 0.48 * max_elevation.
SeaLevelOf(max_elevation) == (48 * max_elevation) \div 100

\* C6: a cell with elevation below 0.48 * max_elevation is Ocean whatever
\* its temperature and moisture, and a cell with elevation at or above that
\* level is never Ocean.

C6_OceanIffBelowSeaLevel ==
    fn_out # <<>> /\ "temp_c" \in DOMAIN fn_in =>
        /\ FLt(fn_in.elevation, SeaLevelOf(fn_in.max_elevation)) => fn_out[1] = "Ocean"
        /\ FGe(fn_in.elevation, SeaLevelOf(fn_in.max_elevation)) => fn_out[1] # "Ocean"

C6_Witness ==
    /\ "temp_c" \in DOMAIN fn_in
    /\ fn_out = <<"Ocean">>
    /\ fn_in.elevation = SeaLevelOf(fn_in.max_elevation) - 1
    /\ FLt(fn_in.temp_c, 0 - 10 * Unit)

\* The ordered table of the classifier, each band with both of its ends;
\* NoRule when no rule matches.
TableBand(t, m) ==
    IF FLt(t, 0 - 5 * Unit)
        THEN (IF FLt(m, 400) THEN "Tundra" ELSE "BorealForest")
    ELSE IF FLe(0 - 5 * Unit, t) /\ FLt(t, 5 * Unit)
        THEN (IF FLt(m, 300) THEN "Tundra" ELSE "Taiga")
    ELSE IF FLe(5 * Unit, t) /\ FLt(t, 18 * Unit)
        THEN (IF FLt(m, 200) THEN "ColdDesert"
              ELSE IF FLt(m, 500) THEN "Grassland"
              ELSE IF FLt(m, 750) THEN "TemperateForest"
              ELSE "TemperateRainforest")
    ELSE IF FLe(18 * Unit, t) /\ FLt(t, 25 * Unit)
        THEN (IF FLt(m, 200) THEN "HotDesert"
              ELSE IF FLt(m, 500) THEN "Savanna"
              ELSE "SubtropicalForest")
    ELSE IF FGe(t, 25 * Unit)
        THEN (IF FLt(m, 200) THEN "HotDesert"
              ELSE IF FLt(m, 450) THEN "Savanna"
              ELSE "TropicalRainforest")
    ELSE "NoRule"

TableBiome(t, m, e, max) ==
    IF FLt(e, (48 * max) \div 100) THEN "Ocean"
    ELSE IF FLt(t, 0 - 10 * Unit) THEN "Ice"
    ELSE IF FGt(e, (75 * max) \div 100) /\ FLe(t, 0) THEN "Snow"
    ELSE IF FGt(e, (60 * max) \div 100) /\ FLe(t, 2 * Unit) THEN "Alpine"
    ELSE TableBand(t, m)

\* C7: for every input biome_from_climate returns the biome of the first
\* matching rule of the ordered table, each boundary value in the band the
\* table's strict and non-strict comparisons give it.
C7_FirstMatchingRule ==
    fn_out # <<>> /\ "temp_c" \in DOMAIN fn_in =>
        fn_out[1] = TableBiome(fn_in.temp_c, fn_in.moisture, fn_in.elevation,
                               fn_in.max_elevation)

\* What holds of C7 on the code: the table, for every cell whose elevation
\* is a number.
C7_TableOnNumbers ==
    fn_out # <<>> /\ "temp_c" \in DOMAIN fn_in /\ ~IsNaN(fn_in.elevation) =>
        fn_out[1] = TableBiome(fn_in.temp_c, fn_in.moisture, fn_in.elevation,
                               fn_in.max_elevation)

\* index_toroidal(x, y, size) is ((y mod size) * size) + (x mod size) with a
\* non-negative modulo, lies in [0, size * size), is unchanged when size is
\* added to or subtracted from x or y, is y * size + x for 0 <= x, y < size,
\* and index_toroidal(-1, 0, 10) = index_toroidal(9, 0, 10).
IndexProperties ==
    LET x == fn_in.x
        y == fn_in.y
        size == fn_in.size
        build == fn_in.build
        res == fn_out[1]
    IN  /\ res = (y % size) * size + (x % size)
        /\ 0 <= res /\ res < size * size
        /\ \A d \in {0 - size, size} :
            /\ InI32(x + d) => index_toroidal(x + d, y, size, build) = res
            /\ InI32(y + d) => index_toroidal(x, y + d, size, build) = res
        /\ (0 <= x /\ x < size /\ 0 <= y /\ y < size) => res = y * size + x
        /\ size = 10 =>
            index_toroidal(0 - 1, 0, size, build) = index_toroidal(9, 0, size, build)

\* C8 as stated: the index properties for every x, y and every size > 0
\* within the i32 range.
C8_EverySize ==
    fn_out # <<>> /\ "size" \in DOMAIN fn_in => IndexProperties

\* The largest index, size * size - 1, is an i32.
SizeFits(size) == size * size - 1 <= I32_MAX

\* C8 as amended: the index properties for every x, y and every size > 0
\* whose largest index, size * size - 1, is an i32.
C8_IndexToroidal ==
    fn_out # <<>> /\ "size" \in DOMAIN fn_in /\ SizeFits(fn_in.size) => IndexProperties

C8_Witness ==
    /\ "size" \in DOMAIN fn_in
    /\ fn_in.x = 0 - 1 /\ fn_in.y = 0 /\ fn_in.size = 10
    /\ fn_out = <<9>>

\* The chunk path: a cell whose grid coordinates reach WORLD_SIZE holds what
\* generate_square_at_position computes for the coordinates wrapped into
\* [0, WORLD_SIZE).
ChunkCellSameAsWrapped ==
    chunk_at # <<>> =>
        \A i \in NonHalo :
            LET gx == (i % ChunkWidth) + chunk_at[1] * CHUNK_SIZE
                gy == (i \div ChunkWidth) + chunk_at[2] * CHUNK_SIZE
            IN  chunk_buf[i] =
                    generate_square_at_position(world_data, gx % WORLD_SIZE,
                                                gy % WORLD_SIZE)

\* The whole-world path: the torus point of column (row) WORLD_SIZE is that
\* of column (row) 0.
WorldPathSeam ==
    \A c \in 0 .. WORLD_SIZE - 1 :
        /\ WorldTorusPoint(0, c, world_data) = WorldTorusPoint(WORLD_SIZE, c, world_data)
        /\ WorldTorusPoint(c, 0, world_data) = WorldTorusPoint(c, WORLD_SIZE, world_data)

\* C9: in both generation paths the values computed for grid column 0 are
\* those computed for column WORLD_SIZE of the same row, and likewise for the
\* rows: the angle of a coordinate has period WORLD_SIZE.
C9_SeamContinuity == WorldPathSeam /\ ChunkCellSameAsWrapped

\* C10: for every chunk of the world and every local (x, y), the elevation,
\* temperature and raw moisture generate_chunk_primary stores are those the
\* parallel stage of generate_logical_world computes for the same world cell.
C10_ChunkAgreesWithWorld ==
    chunk_at # <<>> =>
        \A i \in NonHalo :
            LET gx == (i % ChunkWidth) + chunk_at[1] * CHUNK_SIZE
                gy == (i \div ChunkWidth) + chunk_at[2] * CHUNK_SIZE
                mine == generate_chunk_primary(chunk_at[1], chunk_at[2], world_data)[i]
                theirs == MapClosure(gy * WORLD_SIZE + gx, world_data)
            IN  gx < WORLD_SIZE /\ gy < WORLD_SIZE =>
                    /\ mine.elevation = theirs.elevation
                    /\ mine.temperature = theirs.temperature
                    /\ mine.moisture = theirs.moisture

\* C11: the elevation of a cell lies in [0, 100] for every continental
\* sample c in [-1, 1] and every normalized terrain sample t in [-1, 1].
C11_ElevationRange ==
    fn_out # <<>> /\ "c" \in DOMAIN fn_in =>
        FLe(0, fn_out[1]) /\ FLe(fn_out[1], 100 * Unit)

\* What holds of C11 on the code: the elevation lies in [-8.75, 146.25].
C11_ElevationWiderRange ==
    fn_out # <<>> /\ "c" \in DOMAIN fn_in =>
        FLe(0 - 8750, fn_out[1]) /\ FLe(fn_out[1], 146250)

\* The elevation the per-cell stage computes for grid position (x, y).
ElevationOfPosition(x, y, wd) ==
    ToF32(ElevationFinal(TorusPoint(WorldAngle(x), WorldAngle(y), wd), wd,
                         LocalMaxElevation))

\* C12: the WorldMap returned has width = height = WORLD_SIZE and exactly
\* width * height squares, row-major: the cell of grid position (x, y) is at
\* index y * WORLD_SIZE + x, which is index_toroidal(x, y, WORLD_SIZE), the
\* index the renderer reads for that position.
C12_RowMajor ==
    pc = "done" =>
        /\ world_map.width = WORLD_SIZE
        /\ world_map.height = WORLD_SIZE
        /\ DOMAIN world_map.squares = 0 .. world_map.width * world_map.height - 1
        /\ \A x \in 0 .. WORLD_SIZE - 1, y \in 0 .. WORLD_SIZE - 1, build \in Builds :
            /\ index_toroidal(x, y, WORLD_SIZE, build) = y * WORLD_SIZE + x
            /\ world_map.squares[y * WORLD_SIZE + x].elevation
                    = ElevationOfPosition(x, y, world_data)
        /\ \A chunk_x \in 0 .. CHUNKS_SIZE - 1, chunk_y \in 0 .. CHUNKS_SIZE - 1,
              x \in 0 .. CHUNK_SIZE - 1, y \in 0 .. CHUNK_SIZE - 1, build \in Builds :
            LET gx == x + chunk_x * CHUNK_SIZE
                gy == y + chunk_y * CHUNK_SIZE
                index == RenderedIndex(chunk_x, chunk_y, x, y, build)
            IN  /\ index = gy * WORLD_SIZE + gx
                /\ world_map.squares[index].elevation
                        = ElevationOfPosition(gx, gy, world_data)

C12_Witness ==
    /\ pc = "done"
    /\ \E x \in 0 .. WORLD_SIZE - 1, y \in 0 .. WORLD_SIZE - 1 :
        /\ x # y
        /\ world_map.squares[index_toroidal(x, y, WORLD_SIZE, "debug")].elevation
                # world_map.squares[index_toroidal(y, x, WORLD_SIZE, "debug")].elevation

\* C13: a WorldData with num_of_octaves = 0 makes generation stop before any
\* cell is produced: no slot of the world is written, no WorldMap is
\* returned and no chunk buffer is returned.
C13_FailFastOnZeroOctaves ==
    world_data.num_of_octaves = 0 =>
        /\ \A i \in Cells : squares[i] = NoSquare
        /\ world_map = NoWorldMap
        /\ chunk_at = <<>>

\* What the code does with num_of_octaves = 0: it returns a WorldMap whose
\* every cell has elevation, temperature and moisture NaN and the biome of
\* the classifier's last arm.
C13_ZeroOctavesAllNaN ==
    world_data.num_of_octaves = 0 /\ pc = "done" =>
        \A i \in Cells :
            world_map.squares[i] = Square("TropicalRainforest", NaN, NaN, NaN)

\* C14: along every sequence of menu actions at most one WorldData entity
\* exists at any time, so that a query.single() over WorldData finds exactly
\* one when the world is asked for.
C14_AtMostOneWorldData == Len(world_data_entities) <= 1

\* What the code does instead: every exit from WorldGenSetup, by Back as by
\* Generate, spawns one more WorldData, and only leaving Playing despawns
\* them.
C14_OneWorldDataPerSetupExit ==
    [][(game_state = "WorldGenSetup" /\ game_state' # game_state)
          => Len(world_data_entities') = Len(world_data_entities) + 1]_vars

C14_OnlyLeavingPlayingDespawns ==
    [][Len(world_data_entities') < Len(world_data_entities)
          => game_state = "Playing" /\ game_state' # game_state]_vars

\* C15: each generation request produces an entirely new grid: once the
\* request is served and the app is playing, exactly one WorldMap exists,
\* with the meshes of its chunks; at most one WorldMap exists at any time,
\* and once Playing is left no WorldMap, WorldData or mesh is there.
C15_NewGridPerRequest ==
    /\ world_map_entities <= 1
    /\ game_state = "Playing" =>
          world_map_entities = 1 /\ mesh_entities = CHUNKS_SIZE * CHUNKS_SIZE
    /\ game_state = "MainMenu" =>
          world_map_entities = 0 /\ mesh_entities = 0

\* The part of it that the code keeps: leaving Playing despawns every
\* WorldMap, every WorldData and every mesh, and never are there two
\* WorldMaps.
C15_CleanupOnLeavingPlaying ==
    [][(game_state = "Playing" /\ game_state' # game_state)
          => /\ world_data_entities' = <<>>
             /\ world_map_entities' = 0
             /\ mesh_entities' = 0]_vars

C15_AtMostOneWorldMap == world_map_entities <= 1

\* No WorldMap is ever spawned by the app: Generate asks for Playing, and
\* WorldGenerating, whose OnEnter system generates the world, is not entered.
C15_NoWorldMapInTheApp ==
    game_state # "WorldGenerating" /\ world_map_entities = 0 /\ mesh_entities = 0

\* C16: for every integer cursor position (x, y), also one with x or y
\* negative or >= WORLD_SIZE, the text shows the biome of the cell at
\* index_toroidal(x, y, WORLD_SIZE).
C16_LookupAnyCoordinate ==
    cursor # <<>> =>
        biome_display =
            BiomeName(world_map.squares[index_toroidal(cursor[1], cursor[2],
                                                       WORLD_SIZE, "release")].biome)

\* What the code does: a position inside the world shows the biome of the
\* cell at y * WORLD_SIZE + x, an index of the vector; a position outside
\* it leaves the text as it was.
C16_LookupInsideTheWorld ==
    (cursor # <<>> /\ InWorldBounds(cursor[1], cursor[2])) =>
        /\ cursor[2] * WORLD_SIZE + cursor[1] \in DOMAIN world_map.squares
        /\ \A build \in Builds :
              LookupIndex(cursor[1], cursor[2], build) = cursor[2] * WORLD_SIZE + cursor[1]
        /\ biome_display =
              BiomeName(world_map.squares[cursor[2] * WORLD_SIZE + cursor[1]].biome)

C16_OutsideTheWorldNoLookup ==
    [][(cursor' # cursor /\ ~InWorldBounds(cursor'[1], cursor'[2]))
          => biome_display' = biome_display]_vars

\* While the parallel stage runs the loop has not started, and once the
\* loop is at work every slot has been written.
LoopAfterParallelStage ==
    /\ pc \in {"start", "par"} => adv_i = 0
    /\ pc \in {"adv", "done"} => \A i \in Cells : squares[i] # NoSquare

\* A step of the parallel stage writes what the closure returns, to a slot
\* nothing was written to; a step of the loop leaves elevation and
\* temperature as they are and moves on by one cell.
StageStep ==
    /\ pc = "par" =>
          \A i \in Cells :
              squares'[i] # squares[i] =>
                  squares[i] = NoSquare /\ squares'[i] = MapClosure(i, world_data)
    /\ pc = "adv" =>
          /\ adv_i' \in {adv_i, adv_i + 1}
          /\ \A i \in Cells :
                /\ squares'[i].elevation = squares[i].elevation
                /\ squares'[i].temperature = squares[i].temperature
                /\ squares'[i] # squares[i] => i = adv_i

\* C17: the sequential loop neither reads nor writes a cell before every
\* cell has its elevation, temperature and raw moisture from the parallel
\* stage, whatever the worker schedule: the loop starts only when every slot
\* holds what the closure returned for it.
C17_CollectIsBarrier == [](LoopAfterParallelStage) /\ [][StageStep]_vars

\* The loop has rewritten its first cell, in a world of finite values.
C17_Witness ==
    /\ pc = "adv"
    /\ adv_i = 1
    /\ world_data.num_of_octaves > 0
    /\ squares[0].biome # MapClosure(0, world_data).biome

\* The next column of the same row, column 0 after the last column.
RowLocalUpwind(i) ==
    (i \div WORLD_SIZE) * WORLD_SIZE + (((i % WORLD_SIZE) + 1) % WORLD_SIZE)

\* C18: the advection pass is toroidal in x and row-local: the cell the
\* loop reads for cell i is the next column of the same row, column 0 of
\* that row for the last column, and the moisture it stores is computed from
\* that cell.
C18_RowLocalToroidal ==
    [][(pc = "adv" /\ adv_i' = adv_i + 1) =>
          LET u == RowLocalUpwind(adv_i)
          IN  /\ UpwindIndex(adv_i) = u
              /\ squares'[adv_i].moisture =
                    AdvectedMoisture(squares[adv_i].elevation, squares[u].elevation,
                                     squares[u].moisture, LocalMaxElevation)]_vars

\* What the loop reads: the next index of the whole vector, index 0 after
\* the very last; so the last column of row y reads column 0 of row y + 1,
\* and the last column of the last row column 0 of row 0.
C18_UpwindIsNextIndex ==
    \A i \in Cells :
        /\ UpwindIndex(i) = (i + 1) % NumCells
        /\ i % WORLD_SIZE < WORLD_SIZE - 1 => UpwindIndex(i) = RowLocalUpwind(i)
        /\ i % WORLD_SIZE = WORLD_SIZE - 1 =>
              /\ UpwindIndex(i) % WORLD_SIZE = 0
              /\ UpwindIndex(i) \div WORLD_SIZE = ((i \div WORLD_SIZE) + 1) % WORLD_SIZE

\* (elevation[i] - elevation[u]) / 100, in f32.
HeightDiff(sq, i, u) ==
    ToF32(FDiv(ToF32(FSub(sq[i].elevation, sq[u].elevation)), 100 * Unit))

\* What the loop step for cell i stores, against what it read from its
\* upwind neighbour u.
AdvectionRule(i) ==
    LET u == UpwindIndex(i)
        read == squares[u].moisture
        height_diff == HeightDiff(squares, i, u)
        stored == squares'[i].moisture
    IN  /\ FGt(height_diff, 0) =>
              stored = FClamp01(ToF32(FSub(read, ToF32(FMul(400, height_diff)))))
        /\ ~FGt(height_diff, 0) => stored = FClamp01(read)
        /\ ~FGt(stored, read)
        /\ ~FGt(squares[i].elevation, squares[u].elevation) => stored = read

\* C19: the loop step for cell i, with upwind neighbour u, stores
\* clamp01(moisture[u] - 0.4 * height_diff) when height_diff =
\* (elevation[i] - elevation[u]) / 100 is > 0 and clamp01(moisture[u])
\* otherwise; what it stores never exceeds the moisture it read from u and
\* equals it when cell i is not higher than u.
C19_AdvectionRule ==
    [][(pc = "adv" /\ adv_i' = adv_i + 1) => AdvectionRule(adv_i)]_vars

\* The loop has just taken moisture from a cell higher than its upwind
\* neighbour, which it has not rewritten yet.
C19_Witness ==
    /\ pc = "adv"
    /\ adv_i > 0
    /\ adv_i < NumCells
    /\ ~IsNaN(squares[adv_i - 1].moisture)
    /\ squares[adv_i - 1].elevation > squares[adv_i].elevation
    /\ squares[adv_i - 1].moisture < squares[adv_i].moisture

\* Whether the result of the loop on a made-up row is there.
RowDone == fn_out # NoResult /\ "rise" \in DOMAIN fn_in

\* C20 as stated: on one row of strictly increasing elevation and uniform
\* moisture, the moisture after the pass is non-increasing when the row is
\* read from the highest column index down to column 0.
C20_NonIncreasingFromLastColumn ==
    RowDone =>
        \A i \in Cells : i + 1 \in Cells => fn_out[1][i + 1] >= fn_out[1][i]

\* C20: on one row of strictly increasing elevation and uniform moisture,
\* the moisture after the pass is non-increasing when the row is read from
\* column 0 up to the highest column index: every column but the last keeps
\* the moisture it had, and the last, whose upwind neighbour is column 0,
\* has that much or less.
C20_NonIncreasingFromColumnZero ==
    RowDone =>
        /\ \A i \in Cells : i + 1 \in Cells => fn_out[1][i] >= fn_out[1][i + 1]
        /\ \A i \in Cells : i + 1 \in Cells => fn_out[1][i] = fn_in.moisture
        /\ fn_out[1][NumCells - 1] <= fn_in.moisture

\* The pass has taken moisture from the last column of the row.
C20_Witness ==
    /\ RowDone
    /\ fn_out[1][NumCells - 1] < fn_out[1][NumCells - 2]
    /\ fn_out[1][NumCells - 1] > 0

\* The halo cell of row y of the chunk buffer, and the Square the per-cell
\* stage computes for the world column right of the chunk.
HaloCell(buf, y) == buf[y * ChunkWidth + CHUNK_SIZE]

HaloPosition(chunk_x, chunk_y, y) ==
    generate_square_at_position(world_data, CHUNK_SIZE + chunk_x * CHUNK_SIZE,
                                y + chunk_y * CHUNK_SIZE)

\* C21: the halo cell the chunk's moisture pass reads at local x = CHUNK_SIZE
\* holds, when it is read, the elevation and raw moisture computed for world
\* column chunk_x * CHUNK_SIZE + CHUNK_SIZE of the same row.
C21_HaloComputed ==
    chunk_at # <<>> =>
        \A y \in 0 .. CHUNK_SIZE - 1 :
            LET halo == HaloCell(generate_chunk_primary(chunk_at[1], chunk_at[2], world_data), y)
                there == HaloPosition(chunk_at[1], chunk_at[2], y)
            IN  /\ halo.elevation = there.elevation
                /\ halo.moisture = there.moisture

\* What the code does: generate_chunk_primary fills the columns 0 ..
\* CHUNK_SIZE - 1 only, so the halo cell the pass reads for the last column
\* is the default-initialised Square.
C21_HaloIsDefault ==
    chunk_at # <<>> =>
        \A y \in 0 .. CHUNK_SIZE - 1 :
            /\ HaloCell(generate_chunk_primary(chunk_at[1], chunk_at[2], world_data), y)
                  = DefaultSquare
            /\ HaloCell(chunk_buf, y) = DefaultSquare

\* Whether the latitudes of a cell are there.
LatitudeDone == fn_out # NoResult /\ "wd" \in DOMAIN fn_in

\* |y - WORLD_SIZE / 2| / (WORLD_SIZE / 2): 0 on the centre row, 1 on row 0.
RowLatitude(y) == FDiv(FAbs(FSub(y * Unit, HalfWorld)), HalfWorld)

\* C22: the latitude of a cell is derived from its row y only, is 0 on the
\* centre row, 1 on row 0 and within [0, 1] on every row, and the temperature
\* and the moisture of the cell use this same value, in the closure of
\* generate_logical_world and in get_temperature_at_position /
\* get_moisture_at_position alike.
C22_OneLatitudeFromRow ==
    LatitudeDone =>
        /\ 0 <= RowLatitude(fn_in.y) /\ RowLatitude(fn_in.y) <= Unit
        /\ fn_out[1].world_temperature = RowLatitude(fn_in.y)
        /\ fn_out[1].world_moisture = RowLatitude(fn_in.y)
        /\ fn_out[1].position_temperature = RowLatitude(fn_in.y)
        /\ fn_out[1].position_moisture = RowLatitude(fn_in.y)

\* What holds of the four: the temperature of the closure uses the latitude
\* of the row, 0 on the centre row and 1 on row 0.
C22_WorldTemperatureLatitude ==
    LatitudeDone =>
        /\ fn_out[1].world_temperature = RowLatitude(fn_in.y)
        /\ 0 <= fn_out[1].world_temperature /\ fn_out[1].world_temperature <= Unit
        /\ 2 * fn_in.y = WORLD_SIZE => fn_out[1].world_temperature = 0
        /\ fn_out[1].world_temperature = Unit <=> fn_in.y = 0

\* The moisture of the closure takes the angle of the row for the row.
C22_WorldMoistureLatitude ==
    LatitudeDone =>
        fn_out[1].world_moisture =
            FDiv(FAbs(FSub(WorldAngle(fn_in.y), HalfWorld)), HalfWorld)

\* get_temperature_at_position and get_moisture_at_position take ny /
\* scaling_factor, the sine of the column x, for the row: the same for every
\* row, and the two differ by the WORLD_SIZE / 2 that only one of them adds.
C22_PositionLatitudesFromColumn ==
    LatitudeDone =>
        LET other == Latitudes(fn_in.x, (fn_in.y + 1) % WORLD_SIZE, fn_in.wd)
        IN  /\ fn_out[1].position_temperature = other.position_temperature
            /\ fn_out[1].position_moisture = other.position_moisture
            /\ fn_out[1].position_temperature # fn_out[1].position_moisture

\* Whether the result of get_land_strength is there.
LandStrengthDone == fn_out # NoResult /\ "land" \in DOMAIN fn_in

\* C23: get_land_strength(c) is 0.0 for c = -1.0, 0.1 for c in (-1.0, -0.5],
\* 0.5 for c in (-0.5, 0.0], 0.8 for c in (0.0, 0.5], 1.0 for c in (0.5, 1.0]
\* and 0.0 for any other c; over [-1, 1] it is non-decreasing in c.
C23_LandStrength ==
    LandStrengthDone =>
        LET c == fn_in.land
            w == fn_out[1]
        IN  /\ c = 0 - Unit => w = 0
            /\ (~IsNaN(c) /\ 0 - Unit < c /\ c <= 0 - 500) => w = 100
            /\ (0 - 500 < c /\ c <= 0) => w = 500
            /\ (0 < c /\ c <= 500) => w = 800
            /\ (500 < c /\ c <= Unit) => w = Unit
            /\ (IsNaN(c) \/ c < 0 - Unit \/ c > Unit) => w = 0
            /\ (0 - Unit <= c /\ c <= Unit) =>
                  \A d \in LandInputs :
                      (0 - Unit <= d /\ d <= c) => get_land_strength(d) <= w

\* An end point shared by two ranges has gone to the earlier arm.
C23_Witness ==
    /\ LandStrengthDone
    /\ fn_in.land = 0 - 500
    /\ fn_out[1] = 100

\* Whether the seeds of the four noise fields are there.
SeedsDone == fn_out # NoResult /\ "seed" \in DOMAIN fn_in

\* C24: for every u32 seed, the three highest included, the four noise fields
\* get the seeds seed, seed + 1, seed + 2 and seed + 3 with no overflow that
\* aborts generation, and the four are pairwise distinct.
C24_FourSeeds ==
    SeedsDone =>
        /\ \A k \in 1 .. 4 : fn_out[1][k] # <<>>
        /\ \A j \in 1 .. 4 : \A k \in 1 .. 4 : j # k => fn_out[1][j] # fn_out[1][k]

\* What holds: a release build wraps, and the four seeds it gets are
\* pairwise distinct; a debug build gets the four for every seed up to
\* u32::MAX - 3 and panics on the first sum that overflows for the three
\* seeds above.
C24_ReleaseWraps ==
    (SeedsDone /\ fn_in.build = "release") =>
        /\ \A k \in 1 .. 4 : fn_out[1][k] = <<(fn_in.seed + k - 1) % (U32_MAX + 1)>>
        /\ \A j \in 1 .. 4 : \A k \in 1 .. 4 : j # k => fn_out[1][j] # fn_out[1][k]

C24_DebugPanics ==
    (SeedsDone /\ fn_in.build = "debug") =>
        \A k \in 1 .. 4 :
            fn_out[1][k] = IF fn_in.seed + k - 1 <= U32_MAX
                            THEN <<fn_in.seed + k - 1>> ELSE <<>>

\* The moisture the closure wrote for cell u, before the loop.
RawMoisture(u) == MapClosure(u, world_data).moisture

\* C25: the pass is a single pass over pre-advection values: for every cell
\* i, the last one included, the moisture the loop step reads from the
\* upwind neighbour is the raw moisture of that neighbour, never one the
\* loop has already rewritten.
C25_ReadsRawMoisture ==
    [][(pc = "adv" /\ adv_i' = adv_i + 1) =>
          squares[UpwindIndex(adv_i)].moisture = RawMoisture(UpwindIndex(adv_i))]_vars

\* What holds: every cell but the last reads a cell the loop has not
\* reached yet; the last reads cell 0, which the first step rewrote, and
\* what it reads is what that step stored.
C25_AllButLastReadRaw ==
    [][(pc = "adv" /\ adv_i' = adv_i + 1 /\ adv_i < NumCells - 1) =>
          /\ UpwindIndex(adv_i) > adv_i
          /\ squares[UpwindIndex(adv_i)].moisture = RawMoisture(UpwindIndex(adv_i))]_vars

C25_LastReadsRewritten ==
    [][(pc = "adv" /\ adv_i' = adv_i + 1 /\ adv_i = NumCells - 1) =>
          /\ UpwindIndex(adv_i) = 0
          /\ squares[0].moisture =
                AdvectedMoisture(squares[0].elevation, squares[1].elevation,
                                 RawMoisture(1), LocalMaxElevation)]_vars

\* Whether the indices of a cell of the chunk pass are there.
ChunkAccessDone == fn_out # NoResult /\ "halo" \in DOMAIN fn_in

\* C26 as stated: for every HALO >= 0 and all x and y in [0, CHUNK_SIZE),
\* the index y * (CHUNK_SIZE + HALO) + x and the upwind index
\* y * (CHUNK_SIZE + HALO) + x + 1 are within the buffer of length
\* (CHUNK_SIZE + HALO) * CHUNK_SIZE.
C26_IndicesInBufferAnyHalo ==
    ChunkAccessDone =>
        /\ 0 <= fn_out[1].i /\ fn_out[1].i < fn_out[1].len
        /\ 0 <= fn_out[1].upwind_i /\ fn_out[1].upwind_i < fn_out[1].len

\* C26: for every HALO >= 1 and all x and y in [0, CHUNK_SIZE), both
\* indices are within the buffer; the cell's own index is within it for
\* HALO = 0 too, but the upwind index of the last cell of the last row is
\* then the length of the buffer, and that of the last cell of another row
\* is the first cell of the next row.
C26_IndicesInBuffer ==
    ChunkAccessDone =>
        /\ 0 <= fn_out[1].i /\ fn_out[1].i < fn_out[1].len
        /\ fn_in.halo >= 1 =>
              /\ 0 <= fn_out[1].upwind_i /\ fn_out[1].upwind_i < fn_out[1].len
              /\ fn_out[1].upwind_i \div (CHUNK_SIZE + fn_in.halo) = fn_in.cy
        /\ (fn_in.halo = 0 /\ fn_in.cx = CHUNK_SIZE - 1) =>
              /\ fn_out[1].upwind_i = (fn_in.cy + 1) * CHUNK_SIZE
              /\ fn_in.cy = CHUNK_SIZE - 1 => fn_out[1].upwind_i = fn_out[1].len

\* The last cell of the last row, with a halo of one column: the upwind
\* index is the last index of the buffer.
C26_Witness ==
    /\ ChunkAccessDone
    /\ fn_in.halo = 1
    /\ fn_in.cx = CHUNK_SIZE - 1
    /\ fn_in.cy = CHUNK_SIZE - 1
    /\ fn_out[1].upwind_i = fn_out[1].len - 1

\* C27: whenever the app enters Playing exactly one WorldMap entity exists,
\* so that render_world's query.single() succeeds and the meshes of the
\* chunks are built.
C27_PlayingHasOneWorldMap ==
    [][(game_state # "Playing" /\ game_state' = "Playing") =>
          /\ world_map_entities' = 1
          /\ mesh_entities' = CHUNKS_SIZE * CHUNKS_SIZE]_vars

\* What the code does: Playing is entered from WorldGenSetup, with the
\* WorldData just read and no WorldMap, and render_world builds no mesh.
C27_PlayingWithoutWorld ==
    [][(game_state # "Playing" /\ game_state' = "Playing") =>
          /\ game_state = "WorldGenSetup"
          /\ Len(world_data_entities') >= 1
          /\ world_map_entities' = 0
          /\ mesh_entities' = 0]_vars

\* C28: generation is triggered by a state transition: a press of Generate
\* asks for WorldGenerating, and Playing is entered from WorldGenerating
\* only, after generate_world has run there.
C28_PlayingThroughWorldGenerating ==
    [][/\ (game_state = "WorldGenSetup" /\ next_state = "Unchanged"
             /\ next_state' \notin {"Unchanged", "MainMenu"})
          => next_state' = "WorldGenerating"
       /\ (game_state # "Playing" /\ game_state' = "Playing")
          => game_state = "WorldGenerating"]_vars

\* What the code does: WorldGenerating is neither asked for nor entered.
C28_WorldGeneratingNeverEntered ==
    game_state # "WorldGenerating" /\ next_state # "WorldGenerating"

\* A press of Generate does lead to Playing, straight from WorldGenSetup.
C28_GenerateLeadsToPlaying ==
    (game_state = "WorldGenSetup" /\ next_state = "Playing") ~> (game_state = "Playing")

\* C29: when generate_world runs in WorldGenerating and the WorldData query
\* does not yield exactly one entity (none, or several), no WorldMap is
\* spawned and no transition is requested: every step taken there, the call
\* of generate_world included, leaves the WorldData, WorldMap and mesh
\* entities, NextState and the state itself as they were.
C29_NoSingleWorldDataNoGeneration ==
    [][(game_state = "WorldGenerating" /\ Len(world_data_entities) # 1) =>
          /\ world_map_entities' = world_map_entities
          /\ world_data_entities' = world_data_entities
          /\ mesh_entities' = mesh_entities
          /\ next_state' = "Unchanged"
          /\ game_state' = "WorldGenerating"]_vars

\* generate_world has returned on several WorldData entities.
C29_Witness ==
    /\ fn_out = <<"generate_world">>
    /\ game_state = "WorldGenerating"
    /\ Len(world_data_entities) = 2
    /\ world_map_entities = 0
    /\ next_state = "Unchanged"

\* generate_world has returned on no WorldData entity at all.
C29_WitnessNone ==
    /\ fn_out = <<"generate_world">>
    /\ game_state = "WorldGenerating"
    /\ Len(world_data_entities) = 0
    /\ world_map_entities = 0
    /\ next_state = "Unchanged"

\* What the pass over a chunk buffer leaves alone: the buffer keeps its
\* indices, and every cell its elevation and temperature.
ChunkPassFrame(before, after) ==
    /\ DOMAIN after = DOMAIN before
    /\ \A j \in DOMAIN before :
          /\ after[j].elevation = before[j].elevation
          /\ after[j].temperature = before[j].temperature

\* C30: the advection and classification loop changes only moisture and
\* biome: in the WorldMap built when the loop is over, the grid has one cell
\* per index and cell i holds the elevation and the temperature the per-cell
\* stage computed for index i; the pass over a chunk buffer likewise keeps
\* the buffer's length, order, elevations and temperatures.
C30_LoopChangesMoistureAndBiomeOnly ==
    [][/\ (pc = "adv" /\ pc' = "done") =>
             /\ world_map'.width * world_map'.height = WORLD_SIZE * WORLD_SIZE
             /\ DOMAIN world_map'.squares = Cells
             /\ \A i \in Cells :
                   /\ world_map'.squares[i].elevation = MapClosure(i, world_data).elevation
                   /\ world_map'.squares[i].temperature = MapClosure(i, world_data).temperature
       /\ chunk_at' # chunk_at =>
             LET before == generate_chunk_primary(chunk_at'[1], chunk_at'[2], world_data)
             IN  ChunkPassFrame(before, apply_moisture_pass_and_assign_biomes(before))]_vars

\* The loop is over and has changed the moisture of a cell, in a world of
\* finite values.
C30_Witness ==
    /\ pc = "done"
    /\ chunk_at = <<>>
    /\ world_data.num_of_octaves > 0
    /\ \E i \in Cells : world_map.squares[i].moisture # MapClosure(i, world_data).moisture

====
